---- MODULE Spec2Model ----
(***************************************************************************)
(* Model of the CourseProject backend: six Express routers (users,         *)
(* courses, lessons, quizzes, submissions, enrollments) over Mongoose      *)
(* models.  A document is a function from path names to values, a request  *)
(* body or query string likewise (a path that is not supplied is not in    *)
(* the DOMAIN).  Ids are well-formed ObjectIds, written "id1", "id2", ...  *)
(* Titles are tuples of one-character strings, so that the $regex filter   *)
(* of the course list can be computed; every other value is a string.      *)
(*                                                                         *)
(* One request is dispatched at a time: Receive puts it in req, the        *)
(* handler of its route runs up to its response (or, for POST /api/users,  *)
(* up to the await between findOne and save, where it is parked in         *)
(* pending and other requests run), and Deliver hands the response out.    *)
(* Every other handler makes a single store call, so its interleavings     *)
(* with other requests are the sequential orders.                          *)
(* A request carries the path it was sent to and the router that path is   *)
(* mounted to (none: Express answers 404).  deleted is a history variable:  *)
(* the documents that a delete-by-id has removed.                          *)
(***************************************************************************)
EXTENDS Integers, Sequences, FiniteSets, TLC

VARIABLES db, nextId, req, resp, pending, alive, storeMayFail, deleted

vars == <<db, nextId, req, resp, pending, alive, storeMayFail, deleted>>

(***************************************************************************)
(* Bounds.                                                                 *)
(***************************************************************************)
\* Number of documents the runs create (ids handed out).
MaxDocs == 2
\* Number of POST /api/users requests that may be parked between their
\* findOne and their save at the same time.
MaxPending == 2

(***************************************************************************)
(* Values.                                                                 *)
(***************************************************************************)
IdNames == <<"id1", "id2", "id3", "id4">>
Ids == {IdNames[i] : i \in 1..Len(IdNames)}
\* The ids that requests name in :id and in reference fields.
RefIds == {"id1", "id2"}

Entities == {"users", "courses", "lessons", "quizzes", "submissions", "enrollments"}

NoBody == [p \in {} |-> ""]
Null == [null |-> TRUE]
NoReq == [op |-> "none"]
NoResp == [status |-> -1]

\* new mongoose.Types.ObjectId(): the n-th id the process hands out.
ObjectId(n) == IdNames[n]

(***************************************************************************)
(* Schemas (src/models).  paths: the schema's paths; required: the paths   *)
(* with required: true; text: the paths held as character tuples;          *)
(* defaults: the values Mongoose fills in (arrays default to []).          *)
(***************************************************************************)
userSchema ==
    [paths |-> {"name", "email", "role"},
     required |-> {"name", "email", "role"},
     text |-> {},
     defaults |-> NoBody]

courseSchema ==
    [paths |-> {"title", "description", "instructor", "lessons"},
     required |-> {"title", "instructor"},
     text |-> {"title", "lessons"},
     defaults |-> [lessons |-> <<>>]]

lessonSchema ==
    [paths |-> {"title", "content", "course"},
     required |-> {"title", "course"},
     text |-> {"title"},
     defaults |-> NoBody]

quizSchema ==
    [paths |-> {"question", "options", "answer", "lesson"},
     required |-> {"question", "answer", "lesson"},
     text |-> {"options"},
     defaults |-> [options |-> <<>>]]

submissionSchema ==
    [paths |-> {"student", "quiz", "answer"},
     required |-> {"student", "quiz", "answer"},
     text |-> {},
     defaults |-> NoBody]

enrollmentSchema ==
    [paths |-> {"student", "course", "enrollmentDate"},
     required |-> {"student", "course"},
     text |-> {},
     defaults |-> [enrollmentDate |-> "now"]]

(***************************************************************************)
(* JavaScript and Mongoose helpers.                                        *)
(***************************************************************************)
\* Mutant: only undefined is falsy.
TruthyUnlessUndefined(obj, p) == p \in DOMAIN obj

\* JavaScript truthiness of obj[p]: undefined and "" are falsy.
Truthy(obj, p) == p \in DOMAIN obj /\ obj[p] # ""

\* The required validator: undefined fails; for a String path so does "".
Present(schema, obj, p) ==
    /\ p \in DOMAIN obj
    /\ IF p \in schema.text THEN obj[p] # <<>> ELSE obj[p] # ""

\* strict mode: paths that are not in the schema are dropped.
Strict(schema, obj) == [p \in DOMAIN obj \cap schema.paths |-> obj[p]]

\* new Model(obj): the document before it is saved.
NewDoc(schema, obj, id) ==
    ("_id" :> id) @@ ("__v" :> "0") @@ Strict(schema, obj) @@ schema.defaults

\* doc.validate(), run by save(): every required path is present.
Validate(schema, doc) == \A p \in schema.required : Present(schema, doc, p)

\* Mutant: the lookup never finds a document.
FindOneNever(coll, email) == {}

\* Model.findOne({email}): a stored document with that email, or null.
FindOneByEmail(coll, email) == {d \in coll : d["email"] = email}

\* Mutant: the projection also drops the role.
SelectMinusRole(docs) == {[p \in DOMAIN d \ {"__v", "role"} |-> d[p]] : d \in docs}

\* Query.select('-__v')
SelectMinusV(docs) == {[p \in DOMAIN d \ {"__v"} |-> d[p]] : d \in docs}

\* Model.findById
FindById(coll, id) == {d \in coll : d["_id"] = id}

\* Mutant: a document matches when it meets any one criterion (OR).
FindAny(coll, query) ==
    {d \in coll : \E p \in DOMAIN query : p \in DOMAIN d /\ d[p] = query[p]}

\* Model.find(query) with equality criteria: the documents whose paths
\* equal the criteria, all of them (AND).
Find(coll, query) ==
    {d \in coll : \A p \in DOMAIN query : p \in DOMAIN d /\ d[p] = query[p]}

\* The query object a list handler builds: `if (v) query.p = v` per path.
BuildQuery(q, paths) == [p \in {x \in paths : Truthy(q, x)} |-> q[p]]

\* String.prototype.toLowerCase on one character (the 'i' option).
ToLower(c) == CASE c = "A" -> "a" [] c = "B" -> "b" [] OTHER -> c

\* One pattern character against one text character: "." is the regular
\* expression wildcard, any other character of the alphabet is a literal.
CharMatches(pc, tc) == pc = "." \/ ToLower(pc) = ToLower(tc)

\* { $regex: pattern, $options: 'i' } against a string: an unanchored,
\* case-insensitive regular-expression search.
RegexTest(pattern, text) ==
    \E i \in 0..(Len(text) - Len(pattern)) :
        \A j \in 1..Len(pattern) : CharMatches(pattern[j], text[i + j])

\* Mutant: an inner join, a document whose reference finds no document is
\* left out of the result.
PopulateInner(docs, path, coll) ==
    {[p \in DOMAIN d |->
        IF p # path THEN d[p]
        ELSE CHOOSE t \in coll : t["_id"] = d[p]]
     : d \in {e \in docs : \E t \in coll : t["_id"] = e[path]}}

\* Query.populate(path) on a single reference: the referenced document,
\* or null when the target collection has none with that id.
Populate(docs, path, coll) ==
    {[p \in DOMAIN d |->
        IF p # path THEN d[p]
        ELSE IF FindById(coll, d[p]) = {} THEN Null
        ELSE CHOOSE t \in coll : t["_id"] = d[p]] : d \in docs}

\* Query.populate(path) on an array of references: the referenced
\* documents in order, the ids without a document dropped.
PopulateArray(docs, path, coll) ==
    {[p \in DOMAIN d |->
        IF p # path THEN d[p]
        ELSE LET found == SelectSeq(d[p], LAMBDA i : FindById(coll, i) # {})
             IN [k \in 1..Len(found) |-> CHOOSE t \in coll : t["_id"] = found[k]]]
     : d \in docs}

\* Mutant: a replacement, the stored document keeps its id and nothing else
\* that the body does not supply.
Replaced(schema, d, body) == ("_id" :> d["_id"]) @@ Strict(schema, body)

\* The document findByIdAndUpdate(id, body, {new: true}) leaves stored: the
\* schema's paths of body set on it ($set), validators not run.
Updated(schema, d, body) == Strict(schema, body) @@ d

\* Mutant: upsert, a document is inserted when none has the id.
FindByIdAndUpsert(coll, schema, id, body) ==
    IF FindById(coll, id) = {}
    THEN coll \cup {("_id" :> id) @@ Strict(schema, body)}
    ELSE {IF d["_id"] = id THEN Updated(schema, d, body) ELSE d : d \in coll}

\* Model.findByIdAndUpdate: the collection afterwards.
FindByIdAndUpdate(coll, schema, id, body) ==
    {IF d["_id"] = id THEN Updated(schema, d, body) ELSE d : d \in coll}

\* Mutant: the delete resolves without removing the document.
FindByIdAndKeep(coll, id) == coll

\* Model.findByIdAndDelete: the collection afterwards.
FindByIdAndDelete(coll, id) == {d \in coll : d["_id"] # id}

\* Mutant: resolves to a document whenever the collection has one.
FoundAny(coll, id) == IF coll = {} THEN Null ELSE CHOOSE d \in coll : TRUE

\* What findByIdAndUpdate and findByIdAndDelete resolve to: the document
\* (after the update), or null when no document has the id.
Found(coll, id) ==
    IF FindById(coll, id) = {} THEN Null ELSE CHOOSE d \in coll : d["_id"] = id

(***************************************************************************)
(* Responses.                                                              *)
(***************************************************************************)
\* res.status(s).json(body); calls counts the Mongoose calls the handler
\* awaited before it, error names what was thrown on the way ("none":
\* nothing).
Json(status, message, body, calls) ==
    [status |-> status, message |-> message, body |-> body, calls |-> calls,
     error |-> "none"]

\* The answer of a catch block, or of what stands in for one: err is the
\* error that was thrown.
Thrown(err, r) == [r EXCEPT !.error = err]

\* A rejected promise in an async handler without try/catch.  What follows
\* depends on the Express and Node versions, which the sources do not fix:
\* Express 5 passes the error to its default handler (500); Express 4
\* leaves the rejection unhandled, and Node then either only warns (the
\* request is never answered, status 0) or ends the process.
UnhandledOutcomes == {"errorHandler", "hang", "crash"}

Unhandled(err, outcome, calls) ==
    IF outcome = "errorHandler"
    THEN Thrown(err, Json(500, "Internal Server Error", Null, calls))
    ELSE Thrown(err, Json(0, outcome, Null, calls))

\* The outcomes of one store call: TRUE (it succeeds) or FALSE (it rejects).
StoreOutcomes == IF storeMayFail THEN {TRUE, FALSE} ELSE {TRUE}

(***************************************************************************)
(* Requests.                                                               *)
(***************************************************************************)
\* Mutant: the enrollment router is mounted at the path its route comments
\* document.
MountAsDocumented ==
    [users |-> "/api/users",
     courses |-> "/api/courses",
     lessons |-> "/api/lessons",
     enrollments |-> "/enrollments",
     quizzes |-> "/api/quizzes",
     submissions |-> "/api/submissions"]

\* app.use(prefix, router): the prefix each router is mounted at.
Mount ==
    [users |-> "/api/users",
     courses |-> "/api/courses",
     lessons |-> "/api/lessons",
     enrollments |-> "/api/enrollments",
     quizzes |-> "/api/quizzes",
     submissions |-> "/api/submissions"]

\* The router Express hands a request for the path to: the one mounted at
\* it, "none" when no router is.
Route(path) ==
    IF \E e \in Entities : Mount[e] = path
    THEN CHOOSE e \in Entities : Mount[e] = path
    ELSE "none"

\* A request for a path (the part of the URL before /:id), with the router
\* it is dispatched to.
RequestAt(path, op, id, body, query) ==
    [ent |-> Route(path), path |-> path, op |-> op, id |-> id,
     body |-> body, query |-> query]

\* A request addressed to the router of the entity.
Request(ent, op, id, body, query) == RequestAt(Mount[ent], op, id, body, query)

UserBodies ==
    { [name |-> "Ann", email |-> "a@x", role |-> "student"],
      [name |-> "Bob", email |-> "a@x", role |-> "instructor"],
      [name |-> "Ann", email |-> "b@x", role |-> "student"],
      [email |-> "a@x", role |-> "student"],
      [name |-> "Ann", role |-> "student"],
      [name |-> "Ann", email |-> "a@x"],
      [name |-> "", email |-> "a@x", role |-> "student"],
      [name |-> "Ann", email |-> "a@x", role |-> ""] }

UserRequests ==
    {Request("users", "post", "", b, NoBody) : b \in UserBodies}
    \cup {Request("users", "get", "", NoBody, NoBody)}

\* Course and lesson titles, and the title filters of the course list.
TitleAb == <<"A", "b">>
TitleBDot == <<"b", ".">>
TitleFilters == {<<"a">>, <<"a", "B">>, <<"B", ".">>, <<".">>}

CourseBodies ==
    { [title |-> TitleAb, instructor |-> "id1", lessons |-> <<"id1">>],
      [title |-> TitleBDot, instructor |-> "id2"],
      [instructor |-> "id1"],
      [title |-> <<>>, instructor |-> "id1"],
      [title |-> TitleAb] }

CourseQueries ==
    {NoBody, [title |-> <<>>, instructor |-> ""], [instructor |-> "id1"],
     [title |-> <<"a">>, instructor |-> "id1"]}
    \cup {[title |-> t] : t \in TitleFilters}

CourseUpdates == {[title |-> TitleBDot], [title |-> <<>>]}

CourseRequests ==
    {Request("courses", "post", "", b, NoBody) : b \in CourseBodies}
    \cup {Request("courses", "get", "", NoBody, q) : q \in CourseQueries}
    \cup {Request("courses", "put", i, b, NoBody) : i \in RefIds, b \in CourseUpdates}
    \cup {Request("courses", "delete", i, NoBody, NoBody) : i \in RefIds}

LessonBodies ==
    { [title |-> TitleAb, course |-> "id1"],
      [title |-> TitleAb, course |-> "id2", content |-> "c"],
      [title |-> TitleAb],
      [course |-> "id1"] }

LessonQueries == {NoBody, [course |-> "id1"], [course |-> ""]}

\* (the last with a path that lessonSchema does not declare)
LessonUpdates == {[content |-> "c"], [title |-> <<>>], [content |-> "c", level |-> "1"]}

LessonRequests ==
    {Request("lessons", "post", "", b, NoBody) : b \in LessonBodies}
    \cup {Request("lessons", "get", "", NoBody, q) : q \in LessonQueries}
    \cup {Request("lessons", "put", i, b, NoBody) : i \in RefIds, b \in LessonUpdates}
    \cup {Request("lessons", "delete", i, NoBody, NoBody) : i \in RefIds}

QuizBodies ==
    { [question |-> "q", answer |-> "x", lesson |-> "id1"],
      [question |-> "q", answer |-> "x", lesson |-> "id2", options |-> <<"x", "y">>],
      [question |-> "q", answer |-> "x"],
      [question |-> "", answer |-> "x", lesson |-> "id1"],
      [question |-> "q", lesson |-> "id1"] }

QuizQueries == {NoBody, [lesson |-> "id1"], [lesson |-> ""]}

QuizUpdates == {[answer |-> "y"], [question |-> ""]}

QuizRequests ==
    {Request("quizzes", "post", "", b, NoBody) : b \in QuizBodies}
    \cup {Request("quizzes", "get", "", NoBody, q) : q \in QuizQueries}
    \cup {Request("quizzes", "put", i, b, NoBody) : i \in RefIds, b \in QuizUpdates}
    \cup {Request("quizzes", "delete", i, NoBody, NoBody) : i \in RefIds}

SubmissionBodies ==
    { [student |-> "id1", quiz |-> "id1", answer |-> "x"],
      [student |-> "id1", quiz |-> "id2", answer |-> "x"],
      [student |-> "id2", quiz |-> "id1", answer |-> "x"],
      [student |-> "id1", quiz |-> "id1"],
      [quiz |-> "id1", answer |-> "x"] }

SubmissionQueries ==
    {NoBody, [student |-> "id1"], [quiz |-> "id1"],
     [student |-> "id1", quiz |-> "id1"], [student |-> "", quiz |-> "id2"]}

SubmissionUpdates == {[answer |-> "y"], [answer |-> ""]}

SubmissionRequests ==
    {Request("submissions", "post", "", b, NoBody) : b \in SubmissionBodies}
    \cup {Request("submissions", "get", "", NoBody, q) : q \in SubmissionQueries}
    \cup {Request("submissions", "put", i, b, NoBody) : i \in RefIds, b \in SubmissionUpdates}
    \cup {Request("submissions", "delete", i, NoBody, NoBody) : i \in RefIds}

EnrollmentBodies ==
    { [student |-> "id1", course |-> "id1"],
      [student |-> "id1", course |-> "id2"],
      [student |-> "id2", course |-> "id1", enrollmentDate |-> "then"],
      [student |-> "id1"] }

EnrollmentQueries ==
    {NoBody, [student |-> "id1"], [course |-> "id1"],
     [student |-> "id1", course |-> "id1"], [student |-> "id2", course |-> ""]}

EnrollmentUpdates == {[enrollmentDate |-> "then"], [course |-> "id2"]}

EnrollmentRequests ==
    {Request("enrollments", "post", "", b, NoBody) : b \in EnrollmentBodies}
    \cup {Request("enrollments", "get", "", NoBody, q) : q \in EnrollmentQueries}
    \cup {Request("enrollments", "put", i, b, NoBody) : i \in RefIds, b \in EnrollmentUpdates}
    \cup {Request("enrollments", "delete", i, NoBody, NoBody) : i \in RefIds}

\* Requests for the paths that the route comments of routes/enrollments.js
\* document (/enrollments, /enrollments/{id}).
DocumentedEnrollmentRequests ==
    {RequestAt("/enrollments", "post", "", [student |-> "id1", course |-> "id1"], NoBody),
     RequestAt("/enrollments", "get", "", NoBody, NoBody),
     RequestAt("/enrollments", "delete", "id1", NoBody, NoBody)}

Requests ==
    UserRequests \cup CourseRequests \cup LessonRequests \cup QuizRequests
    \cup SubmissionRequests \cup EnrollmentRequests
    \cup DocumentedEnrollmentRequests

(***************************************************************************)
(* Initial state: empty collections, nothing in flight.                    *)
(***************************************************************************)
InitWith(faults) ==
    /\ db = [e \in Entities |-> {}]
    /\ nextId = 1
    /\ req = NoReq
    /\ resp = NoResp
    /\ pending = [s \in 1..MaxPending |-> NoReq]
    /\ alive = TRUE
    /\ storeMayFail = faults
    /\ deleted = {}

Init == InitWith(FALSE)

InitFault == InitWith(TRUE)

Idle == alive /\ req = NoReq /\ resp = NoResp

Handling(ent, op) ==
    alive /\ resp = NoResp /\ req.op = op /\ req.ent = ent

\* The slots of pending that hold no request, and those that hold one.
FreeSlots == {s \in 1..MaxPending : pending[s] = NoReq}
Parked == {s \in 1..MaxPending : pending[s] # NoReq}

\* The run may create one more document: an id is left for it and for every
\* parked POST /api/users.
Room == nextId + Cardinality(Parked) <= MaxDocs

\* History of the run, read by no handler: the documents that a delete-by-id
\* has removed, as <<collection, id>>.  A findByIdAndDelete that finds the
\* document adds it.
Removed(ent, coll, id) ==
    IF Found(coll, id) # Null THEN deleted \cup {<<ent, id>>} ELSE deleted

\* The handler answers: the response is recorded next to its request.
Respond(r) == resp' = r /\ UNCHANGED <<req, pending, alive, storeMayFail>>

\* An awaited promise of a handler without try/catch rejects with err.
Reject(err, calls) ==
    /\ \E o \in UnhandledOutcomes :
         /\ resp' = Unhandled(err, o, calls)
         /\ alive' = (o # "crash")
    /\ UNCHANGED <<db, nextId, deleted, req, pending, storeMayFail>>

\* new Model(req.body); await doc.save(); res.status(201).json(doc), in a
\* handler without try/catch.
Create(ent, schema) ==
    LET doc == NewDoc(schema, req.body, ObjectId(nextId))
    IN IF ~Validate(schema, doc) THEN Reject("ValidationError", 0)
       ELSE \E ok \in StoreOutcomes :
              IF ~ok THEN Reject("StoreError", 1)
              ELSE /\ Room
                   /\ db' = [db EXCEPT ![ent] = @ \cup {doc}]
                   /\ nextId' = nextId + 1
                   /\ UNCHANGED deleted
                   /\ Respond(Json(201, "", doc, 1))

\* const doc = await Model.findByIdAndUpdate(req.params.id, req.body,
\* {new: true}); res.json(doc), in a handler without try/catch.
Update(ent, schema) ==
    \E ok \in StoreOutcomes :
      IF ~ok THEN Reject("StoreError", 1)
      ELSE /\ db' = [db EXCEPT ![ent] = FindByIdAndUpdate(@, schema, req.id, req.body)]
           /\ Respond(Json(200, "", Found(db'[ent], req.id), 1))
           /\ UNCHANGED <<nextId, deleted>>

\* Mutant: the delete cascades, the documents of the other collections that
\* refer to the id are removed with it.
DeleteCascade(ent, message) ==
    \E ok \in StoreOutcomes :
      IF ~ok THEN Reject("StoreError", 1)
      ELSE /\ db' = [e \in Entities |->
                      IF e = ent THEN FindByIdAndDelete(db[e], req.id)
                      ELSE {d \in db[e] :
                              \A p \in DOMAIN d \cap {"instructor", "course", "lesson",
                                                       "student", "quiz"} :
                                d[p] # req.id}]
           /\ deleted' = Removed(ent, db[ent], req.id)
           /\ Respond(Json(200, message, Null, 1))
           /\ UNCHANGED nextId

\* await Model.findByIdAndDelete(req.params.id); res.json({message}), in a
\* handler without try/catch.
Delete(ent, message) ==
    \E ok \in StoreOutcomes :
      IF ~ok THEN Reject("StoreError", 1)
      ELSE /\ db' = [db EXCEPT ![ent] = FindByIdAndDelete(@, req.id)]
           /\ deleted' = Removed(ent, db[ent], req.id)
           /\ Respond(Json(200, message, Null, 1))
           /\ UNCHANGED nextId

\* res.json(docs) after the find of a list handler without try/catch.
List(docs) ==
    \E ok \in StoreOutcomes :
      IF ~ok THEN Reject("StoreError", 1)
      ELSE Respond(Json(200, "", docs, 1)) /\ UNCHANGED <<db, nextId, deleted>>

(***************************************************************************)
(* Dispatch (server.js): a request arrives for one of the mounted routes.  *)
(***************************************************************************)
Receive ==
    /\ Idle
    /\ \E r \in Requests : req' = r
    /\ UNCHANGED <<db, nextId, deleted, resp, pending, alive, storeMayFail>>

\* No app.use matches the path: Express answers 404 itself, no handler runs.
NoRoute ==
    /\ alive
    /\ resp = NoResp
    /\ req # NoReq
    /\ req.ent = "none"
    /\ Respond(Json(404, "", Null, 0))
    /\ UNCHANGED <<db, nextId, deleted>>

\* The response (or the lack of one) has reached the client.
Deliver ==
    /\ alive
    /\ resp # NoResp
    /\ req' = NoReq
    /\ resp' = NoResp
    /\ UNCHANGED <<db, nextId, deleted, pending, alive, storeMayFail>>

(***************************************************************************)
(* routes/users.js                                                         *)
(***************************************************************************)
\* router.post('/'), up to the await of findOne and what follows it without
\* another await: the validation, the lookup and the two early returns.
UsersPostCheck ==
    /\ Handling("users", "post")
    /\ IF ~Truthy(req.body, "name") \/ ~Truthy(req.body, "email")
          \/ ~Truthy(req.body, "role")
       THEN /\ Respond(Json(400, "Missing required fields", Null, 0))
            /\ UNCHANGED <<db, nextId, deleted>>
       ELSE \E ok \in StoreOutcomes :
              IF ~ok
              THEN /\ Respond(Thrown("StoreError", Json(500, "Server error", Null, 1)))
                   /\ UNCHANGED <<db, nextId, deleted>>
              ELSE IF FindOneByEmail(db.users, req.body.email) # {}
              THEN /\ Respond(Json(400, "User already exists", Null, 1))
                   /\ UNCHANGED <<db, nextId, deleted>>
              ELSE /\ FreeSlots # {}
                   /\ Room
                   /\ LET s == CHOOSE f \in FreeSlots : \A g \in FreeSlots : f <= g
                          others == Parked
                      IN pending' =
                           [t \in 1..MaxPending |->
                              IF t = s
                              THEN [ent |-> req.ent, path |-> req.path,
                                    op |-> req.op, id |-> req.id,
                                    body |-> req.body, query |-> req.query,
                                    seen |-> {d["_id"] : d \in db.users},
                                    overlapped |-> others # {}]
                              ELSE IF t \in others
                              THEN [pending[t] EXCEPT !.overlapped = TRUE]
                              ELSE pending[t]]
                   /\ req' = NoReq
                   /\ UNCHANGED <<db, nextId, deleted, resp, alive, storeMayFail>>

\* router.post('/') from new User(...) on: the save and the 201.
UsersPostSave ==
    /\ Idle
    /\ \E s \in Parked :
         /\ req' = pending[s]
         /\ pending' = [pending EXCEPT ![s] = NoReq]
         /\ \E ok \in StoreOutcomes :
              LET user == NewDoc(userSchema,
                                 [name |-> pending[s].body.name,
                                  email |-> pending[s].body.email,
                                  role |-> pending[s].body.role],
                                 ObjectId(nextId))
              IN IF ok /\ Validate(userSchema, user)
                 THEN /\ db' = [db EXCEPT !.users = @ \cup {user}]
                      /\ nextId' = nextId + 1
                      /\ UNCHANGED deleted
                      /\ resp' = Json(201, "", user, 2)
                 ELSE /\ resp' = Thrown(IF ok THEN "ValidationError" ELSE "StoreError",
                                       Json(500, "Server error", Null, 2))
                      /\ UNCHANGED <<db, nextId, deleted>>
    /\ UNCHANGED <<alive, storeMayFail>>

\* router.get('/')
UsersGet ==
    /\ Handling("users", "get")
    /\ \E ok \in StoreOutcomes :
         IF ok
         THEN Respond(Json(200, "", SelectMinusV(db.users), 1))
         ELSE Respond(Thrown("StoreError", Json(500, "Server error", Null, 1)))
    /\ UNCHANGED <<db, nextId, deleted>>

(***************************************************************************)
(* routes/lessons.js                                                       *)
(***************************************************************************)
LessonsPost == Handling("lessons", "post") /\ Create("lessons", lessonSchema)

LessonsGet ==
    /\ Handling("lessons", "get")
    /\ List(Populate(Find(db.lessons, BuildQuery(req.query, {"course"})),
                     "course", db.courses))

LessonsPut == Handling("lessons", "put") /\ Update("lessons", lessonSchema)

LessonsDelete == Handling("lessons", "delete") /\ Delete("lessons", "Lesson deleted")

(***************************************************************************)
(* routes/submissions.js                                                   *)
(***************************************************************************)
SubmissionsPost ==
    Handling("submissions", "post") /\ Create("submissions", submissionSchema)

SubmissionsGet ==
    /\ Handling("submissions", "get")
    /\ List(Populate(Populate(Find(db.submissions,
                                   BuildQuery(req.query, {"student", "quiz"})),
                              "student", db.users),
                     "quiz", db.quizzes))

SubmissionsPut ==
    Handling("submissions", "put") /\ Update("submissions", submissionSchema)

SubmissionsDelete ==
    Handling("submissions", "delete") /\ Delete("submissions", "Submission deleted")

(***************************************************************************)
(* routes/courses.js                                                       *)
(***************************************************************************)
CoursesPost == Handling("courses", "post") /\ Create("courses", courseSchema)

\* The documents that satisfy query.title = { $regex: title, $options: 'i' }.
TitleRegex(coll, title) ==
    {d \in coll : "title" \in DOMAIN d /\ RegexTest(title, d["title"])}

CoursesGet ==
    /\ Handling("courses", "get")
    /\ LET byTitle == IF "title" \in DOMAIN req.query /\ req.query["title"] # <<>>
                      THEN TitleRegex(db.courses, req.query["title"])
                      ELSE db.courses
           found == Find(byTitle, BuildQuery(req.query, {"instructor"}))
       IN List(PopulateArray(Populate(found, "instructor", db.users),
                             "lessons", db.lessons))

CoursesPut == Handling("courses", "put") /\ Update("courses", courseSchema)

CoursesDelete == Handling("courses", "delete") /\ Delete("courses", "Course deleted")

(***************************************************************************)
(* routes/enrollments.js                                                   *)
(***************************************************************************)
EnrollmentsPost ==
    Handling("enrollments", "post") /\ Create("enrollments", enrollmentSchema)

EnrollmentsGet ==
    /\ Handling("enrollments", "get")
    /\ List(Populate(Populate(Find(db.enrollments,
                                   BuildQuery(req.query, {"student", "course"})),
                              "student", db.users),
                     "course", db.courses))

EnrollmentsPut ==
    Handling("enrollments", "put") /\ Update("enrollments", enrollmentSchema)

EnrollmentsDelete ==
    Handling("enrollments", "delete") /\ Delete("enrollments", "Enrollment deleted")

(***************************************************************************)
(* routes/quizzes.js: every handler has a try/catch that answers 500.      *)
(***************************************************************************)
QuizzesPost ==
    /\ Handling("quizzes", "post")
    /\ LET quiz == NewDoc(quizSchema, req.body, ObjectId(nextId))
       IN IF ~Validate(quizSchema, quiz)
          THEN /\ Respond(Thrown("ValidationError", Json(500, "Server error", Null, 0)))
               /\ UNCHANGED <<db, nextId, deleted>>
          ELSE \E ok \in StoreOutcomes :
                 IF ~ok
                 THEN /\ Respond(Thrown("StoreError", Json(500, "Server error", Null, 1)))
                      /\ UNCHANGED <<db, nextId, deleted>>
                 ELSE /\ Room
                      /\ db' = [db EXCEPT !.quizzes = @ \cup {quiz}]
                      /\ nextId' = nextId + 1
                      /\ UNCHANGED deleted
                      /\ Respond(Json(201, "", quiz, 1))

QuizzesGet ==
    /\ Handling("quizzes", "get")
    /\ \E ok \in StoreOutcomes :
         IF ok
         THEN Respond(Json(200, "",
                           Populate(Find(db.quizzes, BuildQuery(req.query, {"lesson"})),
                                    "lesson", db.lessons), 1))
         ELSE Respond(Thrown("StoreError", Json(500, "Server error", Null, 1)))
    /\ UNCHANGED <<db, nextId, deleted>>

QuizzesPut ==
    /\ Handling("quizzes", "put")
    /\ \E ok \in StoreOutcomes :
         IF ~ok
         THEN Respond(Thrown("StoreError", Json(500, "Server error", Null, 1)))
              /\ UNCHANGED db
         ELSE LET quiz == Found(FindByIdAndUpdate(db.quizzes, quizSchema, req.id, req.body),
                                req.id)
              IN /\ db' = [db EXCEPT !.quizzes =
                                FindByIdAndUpdate(@, quizSchema, req.id, req.body)]
                 /\ IF quiz = Null
                    THEN Respond(Json(404, "Quiz not found", Null, 1))
                    ELSE Respond(Json(200, "", quiz, 1))
    /\ UNCHANGED <<nextId, deleted>>

QuizzesDelete ==
    /\ Handling("quizzes", "delete")
    /\ \E ok \in StoreOutcomes :
         IF ~ok
         THEN Respond(Thrown("StoreError", Json(500, "Server error", Null, 1)))
              /\ UNCHANGED <<db, deleted>>
         ELSE LET quiz == Found(db.quizzes, req.id)
              IN /\ db' = [db EXCEPT !.quizzes = FindByIdAndDelete(@, req.id)]
                 /\ deleted' = Removed("quizzes", db.quizzes, req.id)
                 /\ IF quiz = Null
                    THEN Respond(Json(404, "Quiz not found", Null, 1))
                    ELSE Respond(Json(200, "Quiz deleted", Null, 1))
    /\ UNCHANGED nextId

Next ==
    \/ Receive
    \/ NoRoute
    \/ Deliver
    \/ UsersPostCheck
    \/ UsersPostSave
    \/ UsersGet
    \/ LessonsPost
    \/ LessonsGet
    \/ LessonsPut
    \/ LessonsDelete
    \/ SubmissionsPost
    \/ SubmissionsGet
    \/ SubmissionsPut
    \/ SubmissionsDelete
    \/ CoursesPost
    \/ CoursesGet
    \/ CoursesPut
    \/ CoursesDelete
    \/ EnrollmentsPost
    \/ EnrollmentsGet
    \/ EnrollmentsPut
    \/ EnrollmentsDelete
    \/ QuizzesPost
    \/ QuizzesGet
    \/ QuizzesPut
    \/ QuizzesDelete

Spec == Init /\ [][Next]_vars

SpecFault == InitFault /\ [][Next]_vars

(***************************************************************************)
(* Properties.                                                             *)
(***************************************************************************)
\* This step answers a request of one of the routes ops of router ent.  The
\* request answered is req', the store before the handler ran is db.
Answers(ent, ops) ==
    resp = NoResp /\ resp' # NoResp /\ req'.ent = ent /\ req'.op \in ops

\* A response to a request of one of the routes ops of router ent stands.
Answered(ent, ops) == resp # NoResp /\ req.ent = ent /\ req.op \in ops

\* The body does not supply path p, or supplies it empty.
Missing(body, p) == p \notin DOMAIN body \/ body[p] = ""

Complete(body) == \A p \in {"name", "email", "role"} : ~Missing(body, p)

StoredEmails(users) == {u["email"] : u \in users}

StoredIds(store) == UNION {{d["_id"] : d \in store[e]} : e \in Entities}

\* Another POST /api/users was in flight while the one answered by this
\* step was: during its await, or (for one answered without an await)
\* when it ran.
Overlapped == IF "overlapped" \in DOMAIN req' THEN req'.overlapped ELSE Parked # {}

\* C1: a POST /api/users that overlaps no other POST /api/users is answered
\* 400 and leaves the store unchanged when its email is the email of a
\* stored User (with the message 'User already exists' when it carries all
\* three fields); with all three fields and a new email it is answered 201
\* and adds exactly one User, with that name, email and role and a fresh id,
\* which is the body of the answer.
C1_SequentialCreate ==
    [][(Answers("users", {"post"}) /\ ~Overlapped) =>
         LET b == req'.body
         IN /\ (~Missing(b, "email") /\ b.email \in StoredEmails(db.users)) =>
                 /\ resp'.status = 400
                 /\ Complete(b) => resp'.message = "User already exists"
                 /\ db' = db
            /\ (Complete(b) /\ b.email \notin StoredEmails(db.users)) =>
                 /\ resp'.status = 201
                 /\ \E u \in db'.users \ db.users :
                      /\ db' = [db EXCEPT !.users = @ \cup {u}]
                      /\ u["name"] = b.name /\ u["email"] = b.email
                      /\ u["role"] = b.role
                      /\ u["_id"] \in Ids \ StoredIds(db)
                      /\ resp'.body = u]_vars

\* C1 witness: a second POST with a stored email, no other POST /api/users
\* in flight, was answered 'User already exists'.
C1_Witness ==
    /\ Answered("users", {"post"})
    /\ resp.status = 400 /\ resp.message = "User already exists"
    /\ Parked = {}
    /\ \E u \in db.users : u["email"] = req.body.email /\ u["name"] # req.body.name

\* C2: findOne and save are two steps.  A POST /api/users answered 201 for
\* an email that a stored User already has is one that overlapped another
\* POST /api/users, every stored User with that email was inserted after this
\* request's findOne (both checks ran before either insert), and the store
\* then holds two Users with the email.
C2_CheckThenInsertRace ==
    [][(Answers("users", {"post"}) /\ resp'.status = 201
        /\ req'.body.email \in StoredEmails(db.users)) =>
         /\ req'.overlapped
         /\ \A u \in db.users :
              u["email"] = req'.body.email => u["_id"] \notin req'.seen
         /\ Cardinality({u \in db'.users : u["email"] = req'.body.email}) >= 2]_vars

\* C2 witness: both of two overlapping POSTs with one email were answered
\* 201 (only a 201 inserts), and two stored Users share the email.
C2_Witness ==
    /\ Answered("users", {"post"})
    /\ resp.status = 201
    /\ req.overlapped
    /\ \E u, v \in db.users :
         /\ u["_id"] # v["_id"]
         /\ u["email"] = v["email"]
         /\ v = resp.body

\* C3: a POST /api/users without a name, an email or a role (or with an
\* empty one) is answered 400 'Missing required fields' before any store
\* call and leaves the store unchanged, whether or not its email is stored.
C3_MissingFields ==
    [][(Answers("users", {"post"}) /\ ~Complete(req'.body)) =>
         /\ resp'.status = 400
         /\ resp'.message = "Missing required fields"
         /\ resp'.calls = 0
         /\ db' = db]_vars

\* C3 witness: the request lacks a field and its email is a stored one: the
\* missing-field answer, not 'User already exists'.
C3_Witness ==
    /\ Answered("users", {"post"})
    /\ ~Complete(req.body)
    /\ ~Missing(req.body, "email")
    /\ req.body.email \in StoredEmails(db.users)
    /\ resp.message = "Missing required fields"

\* No document of the collection has the id.
Unknown(coll, id) == \A d \in coll : d["_id"] # id

\* C4: PUT and DELETE /api/quizzes/:id with an id no stored Quiz has are
\* answered 404 'Quiz not found' and leave the store unchanged; with the id
\* of a stored Quiz they are answered 200, PUT with the document as it is
\* stored after the update, DELETE with the message 'Quiz deleted'.
C4_QuizNotFound ==
    [][Answers("quizzes", {"put", "delete"}) =>
         IF Unknown(db.quizzes, req'.id)
         THEN /\ resp'.status = 404
              /\ resp'.message = "Quiz not found"
              /\ db' = db
         ELSE /\ resp'.status = 200
              /\ req'.op = "put" =>
                   /\ resp'.body \in db'.quizzes
                   /\ resp'.body["_id"] = req'.id
                   /\ \A p \in DOMAIN req'.body : resp'.body[p] = req'.body[p]
              /\ req'.op = "delete" =>
                   /\ resp'.message = "Quiz deleted"
                   /\ Unknown(db'.quizzes, req'.id)]_vars

\* C4 witness: a Quiz is stored, and a PUT or DELETE that names another id
\* was answered 404.
C4_Witness ==
    /\ Answered("quizzes", {"put", "delete"})
    /\ resp.status = 404
    /\ db.quizzes # {}

\* C5 (as claimed): PUT and DELETE /api/courses/:id with an id no stored
\* Course has are answered 404 and leave the store unchanged.
C5_CourseNotFound ==
    [][(Answers("courses", {"put", "delete"}) /\ Unknown(db.courses, req'.id)) =>
         /\ resp'.status = 404
         /\ db' = db]_vars

DeletedMessage ==
    [lessons |-> "Lesson deleted", submissions |-> "Submission deleted",
     enrollments |-> "Enrollment deleted"]

C7_QuizValidation400 ==
    [][(Answers("quizzes", {"post"})
        /\ \E p \in {"question", "answer", "lesson"} : Missing(req'.body, p)) =>
         /\ resp'.status = 400
         /\ db' = db]_vars

RequiredPaths ==
    [users |-> {"name", "email", "role"},
     courses |-> {"title", "instructor"},
     lessons |-> {"title", "course"},
     quizzes |-> {"question", "answer", "lesson"},
     submissions |-> {"student", "quiz", "answer"},
     enrollments |-> {"student", "course"}]

\* The body of a create lacks a required path of its entity.
LacksRequired(r) ==
    /\ r.ent \in Entities
    /\ r.op = "post"
    /\ \E p \in RequiredPaths[r.ent] :
         \/ p \notin DOMAIN r.body
         \/ IF p = "title" THEN r.body[p] = <<>> ELSE r.body[p] = ""

\* C8 (as claimed): a request that has been handled has got its response; a
\* create that fails validation got 400, a request whose store call failed
\* got 500, with or without a try/catch in the handler.
C8_EveryRequestAnswered ==
    resp # NoResp =>
      /\ resp.status # 0
      /\ alive
      /\ LacksRequired(req) => resp.status = 400
      /\ resp.error = "StoreError" => resp.status = 500

\* The title contains t as a literal substring, compared case-insensitively.
ContainsIgnoreCase(t, title) ==
    \E i \in 0..(Len(title) - Len(t)) :
        \A j \in 1..Len(t) : ToLower(t[j]) = ToLower(title[i + j])

IdsOf(docs) == {d["_id"] : d \in docs}

\* C9 (as claimed): GET /api/courses with a title filter returns exactly the
\* stored Courses whose title contains the filter as a literal substring,
\* compared case-insensitively (and that meet the instructor criterion).
C9_TitleFilterIsSubstring ==
    (/\ Answered("courses", {"get"})
     /\ resp.status = 200
     /\ "title" \in DOMAIN req.query
     /\ req.query["title"] # <<>>) =>
       IdsOf(resp.body) =
         IdsOf({c \in db.courses :
                  /\ ContainsIgnoreCase(req.query["title"], c["title"])
                  /\ Missing(req.query, "instructor")
                     \/ c["instructor"] = req.query["instructor"]})

\* The reference criteria of each list.
Criteria ==
    [users |-> {},
     courses |-> {"instructor"},
     lessons |-> {"course"},
     quizzes |-> {"lesson"},
     submissions |-> {"student", "quiz"},
     enrollments |-> {"student", "course"}]

\* The stored documents that meet every supplied criterion of the query.
MeetAll(ent, query) ==
    {d \in db[ent] : \A p \in Criteria[ent] : Missing(query, p) \/ d[p] = query[p]}

\* C10: a list returns exactly the stored documents whose reference fields
\* equal every criterion that the query supplies non-empty (for courses,
\* among those its title filter selects); without criteria that is the whole
\* collection.
C10_ListIsConjunction ==
    \A ent \in Entities :
      (Answered(ent, {"get"}) /\ resp.status = 200) =>
        IdsOf(resp.body) =
          IdsOf(IF "title" \in DOMAIN req.query /\ req.query["title"] # <<>>
                THEN TitleRegex(MeetAll(ent, req.query), req.query["title"])
                ELSE MeetAll(ent, req.query))

\* C10 witness: of two stored Submissions of one student, the list with that
\* student and a quiz returned the one for the quiz.
C10_Witness ==
    /\ Answered("submissions", {"get"})
    /\ ~Missing(req.query, "student") /\ ~Missing(req.query, "quiz")
    /\ Cardinality(resp.body) = 1
    /\ \E d \in db.submissions :
         d["student"] = req.query["student"] /\ d["quiz"] # req.query["quiz"]

\* The collections whose routers have a delete-by-id.
Deletable == Entities \ {"users"}

\* C11: once a delete-by-id has removed a stored Course, Lesson, Quiz,
\* Submission or Enrollment, no later list of that collection, whatever its
\* filter, contains a document with that id (no later create is given the
\* id again).
C11_DeletedStaysAbsent ==
    \A ent \in Deletable :
      (Answered(ent, {"get"}) /\ resp.status = 200) =>
        \A id \in IdsOf(resp.body) : <<ent, id>> \notin deleted

\* C11 witness: a list of a collection from which a document was deleted
\* returned a document created afterwards.
C11_Witness ==
    \E ent \in Deletable :
      /\ Answered(ent, {"get"})
      /\ resp.status = 200
      /\ resp.body # {}
      /\ \E id \in Ids : <<ent, id>> \in deleted

\* The list shows the user: a listed document has its id, name, email and
\* role.
Listed(u, body) ==
    \E v \in body :
      /\ {"_id", "name", "email", "role"} \subseteq DOMAIN v
      /\ \A p \in {"_id", "name", "email", "role"} : v[p] = u[p]

\* C12: no step, of a request on any entity, changes or removes a stored
\* User, and every GET /api/users that is answered 200 shows every stored
\* User with its name, email and role.
C12_UsersArePermanent ==
    [][/\ db.users \subseteq db'.users
       /\ (Answers("users", {"get"}) /\ resp'.status = 200) =>
            \A u \in db.users : Listed(u, resp'.body)]_vars

\* C12 witness: the users list was answered with a stored User after a
\* delete-by-id on another collection had removed a document.
C12_Witness ==
    /\ Answered("users", {"get"})
    /\ resp.status = 200
    /\ \E u \in db.users : Listed(u, resp.body)
    /\ deleted # {}

ApiPath ==
    [users |-> "/api/users",
     courses |-> "/api/courses",
     lessons |-> "/api/lessons",
     quizzes |-> "/api/quizzes",
     submissions |-> "/api/submissions",
     enrollments |-> "/api/enrollments"]

C14_DeleteDoesNotCascade ==
    [][\A ent \in Deletable :
         Answers(ent, {"delete"}) =>
           /\ \A e \in Entities \ {ent} : db'[e] = db[e]
           /\ db'[ent] = {d \in db[ent] : d["_id"] # req'.id}]_vars

\* C14 witness: a stored Lesson's course is the id of a Course that a delete
\* removed, and no stored Course has it.
C14_Witness ==
    \E l \in db.lessons :
      /\ <<"courses", l["course"]>> \in deleted
      /\ Unknown(db.courses, l["course"])

\* The single references a list expands, with the collection each refers to.
Relations ==
    [users |-> {},
     courses |-> {<<"instructor", "users">>},
     lessons |-> {<<"course", "courses">>},
     quizzes |-> {<<"lesson", "lessons">>},
     submissions |-> {<<"student", "users">>, <<"quiz", "quizzes">>},
     enrollments |-> {<<"student", "users">>, <<"course", "courses">>}]

\* v is the stored document d with its relations expanded against the store
\* as it is: a single reference is the stored document with that id, null
\* when there is none; the lessons of a Course are the stored Lessons among
\* its ids, in order, the others left out.
Expands(ent, v, d) ==
    /\ DOMAIN v = DOMAIN d
    /\ \A r \in Relations[ent] :
         IF \E t \in db[r[2]] : t["_id"] = d[r[1]]
         THEN v[r[1]] \in db[r[2]] /\ v[r[1]]["_id"] = d[r[1]]
         ELSE v[r[1]] = Null
    /\ ent = "courses" =>
         LET kept == SelectSeq(d["lessons"],
                               LAMBDA i : \E t \in db.lessons : t["_id"] = i)
         IN /\ Len(v["lessons"]) = Len(kept)
            /\ \A k \in 1..Len(kept) :
                 v["lessons"][k] \in db.lessons /\ v["lessons"][k]["_id"] = kept[k]
    /\ \A p \in DOMAIN d :
         (p # "lessons" /\ \A r \in Relations[ent] : r[1] # p) => v[p] = d[p]

\* C15: every document of a list result is a stored document with each
\* relation expanded to the referenced document as stored, or to null (for
\* the lessons of a Course: left out) when no document has the referenced
\* id; the list is answered 200 all the same and, without a filter, holds
\* every stored document, the ones with unresolved references too.
C15_ExpandedRelations ==
    \A ent \in Deletable :
      Answered(ent, {"get"}) =>
        /\ resp.status = 200
        /\ \A v \in resp.body :
             \E d \in db[ent] : d["_id"] = v["_id"] /\ Expands(ent, v, d)
        /\ req.query = NoBody => IdsOf(resp.body) = IdsOf(db[ent])

\* C15 witness: a listed Course has its lessons expanded to a stored Lesson
\* and its instructor, the id of no stored User, expanded to null.
C15_Witness ==
    /\ Answered("courses", {"get"})
    /\ \E v \in resp.body :
         /\ v["instructor"] = Null
         /\ Len(v["lessons"]) = 1
         /\ v["lessons"][1] \in db.lessons

\* The document of the collection with the id (there is one).
ById(coll, id) == CHOOSE d \in coll : d["_id"] = id

\* C16: a PUT /:id with the id of a stored document leaves a document with
\* that id stored, on which every supplied field has the supplied value and
\* every other field, the id among them, the value it had; the other
\* documents of the collection and the other collections stay as they were,
\* and the answer is 200 with the document as it is now stored.
C16_UpdateChangesSuppliedFieldsOnly ==
    [][\A ent \in Deletable :
         (Answers(ent, {"put"}) /\ ~Unknown(db[ent], req'.id)) =>
           /\ ~Unknown(db'[ent], req'.id)
           /\ LET old == ById(db[ent], req'.id)
                  new == ById(db'[ent], req'.id)
              IN /\ DOMAIN old \subseteq DOMAIN new
                 /\ DOMAIN new \subseteq DOMAIN old \cup DOMAIN req'.body
                 /\ \A p \in DOMAIN old \ DOMAIN req'.body : new[p] = old[p]
                 /\ \A p \in DOMAIN new \cap DOMAIN req'.body : new[p] = req'.body[p]
                 /\ new["_id"] = old["_id"]
                 /\ resp'.status = 200
                 /\ resp'.body = new
           /\ {d \in db'[ent] : d["_id"] # req'.id} = {d \in db[ent] : d["_id"] # req'.id}
           /\ \A e \in Entities \ {ent} : db'[e] = db[e]]_vars

\* C16 witness: of two stored documents of a collection, a PUT was answered
\* with one, which has the supplied values.
C16_Witness ==
    \E ent \in Deletable :
      /\ Answered(ent, {"put"})
      /\ resp.status = 200
      /\ Cardinality(db[ent]) = 2
      /\ resp.body \in db[ent]
      /\ \A p \in DOMAIN req.body : resp.body[p] = req.body[p]

\* C17 (as claimed): every stored Course, Lesson, Quiz and Submission has
\* each of its required fields present and not empty, whatever creates,
\* updates and deletes have run: an update-by-id cannot clear one.
C17_RequiredFieldsKept ==
    \A ent \in {"courses", "lessons", "quizzes", "submissions"} :
      \A d \in db[ent] :
        \A p \in RequiredPaths[ent] :
          /\ p \in DOMAIN d
          /\ d[p] # (IF p = "title" THEN <<>> ELSE "")

====
